---- MODULE Spec2Model ----
(***************************************************************************)
(* MarkdownGov: the Markdown-to-Word conversion engine.                    *)
(*   src/src/converter.py       MarkdownToWordConverter                    *)
(*   src/src/style_detector.py  MarkdownStyleDetector                      *)
(*   src/src/main.py            main                                       *)
(* Text is modelled character by character: a string is a tuple of         *)
(* one-character strings, a document a tuple of lines (the items of        *)
(* readlines(), without the line terminator that strip() removes anyway).  *)
(***************************************************************************)
EXTENDS Integers, Sequences, FiniteSets, TLC

VARIABLES
    files,            \* the template files on disk: path -> set of style names
    required_styles,  \* MarkdownStyleDetector.required_styles
    current_level,    \* MarkdownStyleDetector.current_level
    md,               \* the lines of the Markdown document at hand
    call              \* the call made last: its operation, arguments and outcome

vars == <<files, required_styles, current_level, md, call>>

----------------------------------------------------------------------------
(* Bounds of the model.                                                    *)

\* longest line of the exhaustively enumerated one-line documents
MaxLineLen == 4
\* most lines of the enumerated documents of title detection
MaxTitleLines == 4
\* most lines of an enumerated front-matter block
MaxFmLines == 2
\* most template files the model lets ensure_styles_exist leave on disk
MaxFiles == 3
\* most lines of the enumerated documents of headings, paragraphs and blanks
MaxParseLines == 3

----------------------------------------------------------------------------
(* Strings.                                                                *)

\* str.strip() of the sources: leading and trailing whitespace removed
RECURSIVE LStrip(_)
LStrip(s) == IF s # <<>> /\ Head(s) = " " THEN LStrip(Tail(s)) ELSE s

RECURSIVE RStrip(_)
RStrip(s) ==
    IF s # <<>> /\ s[Len(s)] = " " THEN RStrip(SubSeq(s, 1, Len(s) - 1)) ELSE s

Strip(s) == RStrip(LStrip(s))

\* s[i:] and s[i:j] of Python, in 1-based positions
From(s, i) == SubSeq(s, i, Len(s))

\* str.startswith
StartsWith(s, p) == Len(s) >= Len(p) /\ SubSeq(s, 1, Len(p)) = p

\* does p occur in s at position i
At(s, p, i) == i >= 1 /\ i + Len(p) - 1 <= Len(s) /\ SubSeq(s, i, i + Len(p) - 1) = p

\* the first position >= i at which p occurs in s, 0 when there is none
Find(s, p, i) ==
    LET hits == {j \in i..Len(s) : At(s, p, j)}
    IN  IF hits = {} THEN 0 ELSE CHOOSE j \in hits : \A k \in hits : j <= k

\* the elements of a tuple of strings, concatenated
RECURSIVE Concat(_)
Concat(ss) == IF ss = <<>> THEN <<>> ELSE Head(ss) \o Concat(Tail(ss))

\* the number of leading characters of s that are in the set cs
RECURSIVE LeadCount(_, _)
LeadCount(s, cs) ==
    IF s # <<>> /\ Head(s) \in cs THEN 1 + LeadCount(Tail(s), cs) ELSE 0

Digits == {"0", "1", "2", "3", "4", "5", "6", "7", "8", "9"}

\* str(n) of a natural number, as an f-string formats it
RECURSIVE FormatInt(_)
FormatInt(n) ==
    LET d == <<<<"0", "1", "2", "3", "4", "5", "6", "7", "8", "9">>[(n % 10) + 1]>>
    IN  IF n < 10 THEN d ELSE FormatInt(n \div 10) \o d

\* s.split(sep) for a separator of one character
RECURSIVE Split(_, _)
Split(s, sep) ==
    LET n == Find(s, <<sep>>, 1)
    IN  IF n = 0 THEN <<s>> ELSE <<SubSeq(s, 1, n - 1)>> \o Split(From(s, n + 1), sep)

\* whether int(s) accepts s: an optional sign, then digits, single underscores
\* allowed between digits, whitespace around it all ignored
IntLiteral(s) ==
    LET t == Strip(s)
        u == IF t # <<>> /\ Head(t) \in {"+", "-"} THEN Tail(t) ELSE t
    IN  /\ u # <<>>
        /\ \A j \in 1..Len(u) : u[j] \in Digits \cup {"_"}
        /\ u[1] \in Digits /\ u[Len(u)] \in Digits
        /\ \A j \in 1..(Len(u) - 1) : ~(u[j] = "_" /\ u[j + 1] = "_")

----------------------------------------------------------------------------
(* Style names, character by character like every other text.              *)

sHeading == <<"H", "e", "a", "d", "i", "n", "g">>
sBodyText == <<"B", "o", "d", "y", " ", "T", "e", "x", "t">>
sQuote == <<"Q", "u", "o", "t", "e">>
sListBullet == <<"L", "i", "s", "t", " ", "B", "u", "l", "l", "e", "t">>
sListNumber == <<"L", "i", "s", "t", " ", "N", "u", "m", "b", "e", "r">>
sCode == <<"C", "o", "d", "e">>
sInlineCode == <<"I", "n", "l", "i", "n", "e", " ", "C", "o", "d", "e">>
sTitle == <<"T", "i", "t", "l", "e">>
sNormal == <<"N", "o", "r", "m", "a", "l">>

----------------------------------------------------------------------------
(* MarkdownToWordConverter._parse_markdown_to_word (converter.py 90-159).  *)

\* the names of the heading styles, f"Heading {level}"
HeadingStyle(level) == sHeading \o <<" ">> \o FormatInt(level)

\* hundredths of an inch of left indent per heading level below the first
IndentStep == 25

\* re.match(r'^(#{1,6})\s*(.*)', line): len(group(1)), 0 when there is no match
HeadingLevel(line) ==
    LET n == LeadCount(line, {"#"}) IN IF n > 6 THEN 6 ELSE n

\* group(2) of the heading match: what follows the hashes and the whitespace
HeadingText(line) == LStrip(From(line, HeadingLevel(line) + 1))

\* the grave accent that delimits inline code; the character itself cannot be
\* written in a string of this language, so the atom "BT" stands for it
BT == "BT"
Backtick == <<BT>>

\* re.findall of BT(.*?)BT in the line: the contents of the successive code spans
RECURSIVE InlineCodeMatches(_)
InlineCodeMatches(s) ==
    LET i == Find(s, Backtick, 1)
        j == IF i = 0 THEN 0 ELSE Find(s, Backtick, i + 1)
    IN  IF j = 0 THEN <<>>
        ELSE <<SubSeq(s, i + 1, j - 1)>> \o InlineCodeMatches(From(s, j + 1))

\* re.sub of BT(.*?)BT by the empty string
RECURSIVE RemoveInlineCode(_)
RemoveInlineCode(s) ==
    LET i == Find(s, Backtick, 1)
        j == IF i = 0 THEN 0 ELSE Find(s, Backtick, i + 1)
    IN  IF j = 0 THEN s
        ELSE SubSeq(s, 1, i - 1) \o RemoveInlineCode(From(s, j + 1))

\* re.sub of  d(.*?)d  by  open \1 close : the leftmost span between two
\* occurrences of the delimiter d, the nearest closing one, then on from its end
RECURSIVE SubEmphasis(_, _, _, _)
SubEmphasis(s, d, open, close) ==
    LET i == Find(s, d, 1)
        j == IF i = 0 THEN 0 ELSE Find(s, d, i + Len(d))
    IN  IF j = 0 THEN s
        ELSE SubSeq(s, 1, i - 1) \o open \o SubSeq(s, i + Len(d), j - 1) \o close
             \o SubEmphasis(From(s, j + Len(d)), d, open, close)

BOpen == <<"<", "b", ">">>
BClose == <<"<", "/", "b", ">">>
IOpen == <<"<", "i", ">">>
IClose == <<"<", "/", "i", ">">>
Markers == {BOpen, BClose, IOpen, IClose}

\* lines 138-140: bold+italic, then bold, then italic, each rewritten to markers
MarkEmphasis(line) ==
    LET l3 == SubEmphasis(line, <<"*", "*", "*">>, BOpen \o IOpen, IClose \o BClose)
        l2 == SubEmphasis(l3, <<"*", "*">>, BOpen, BClose)
    IN  SubEmphasis(l2, <<"*">>, IOpen, IClose)

\* the first position of s at which a marker occurs, 0 when there is none
MarkerPos(s) ==
    LET hits == {j \in 1..Len(s) : \E m \in Markers : At(s, m, j)}
    IN  IF hits = {} THEN 0 ELSE CHOOSE j \in hits : \A k \in hits : j <= k

\* re.split(r'(<b>|</b>|<i>|</i>)', line): text, marker, text, ..., text
RECURSIVE Tokens(_)
Tokens(s) ==
    LET p == MarkerPos(s)
        m == CHOOSE x \in Markers : At(s, x, p)
    IN  IF p = 0 THEN <<s>>
        ELSE <<SubSeq(s, 1, p - 1), m>> \o Tokens(From(s, p + Len(m)))

Run(text, bold, italic, style) ==
    [text |-> text, bold |-> bold, italic |-> italic, style |-> style]

\* lines 143-157: the markers switch the flags, every other token is a run
RECURSIVE TokenRuns(_, _, _)
TokenRuns(tokens, is_bold, is_italic) ==
    IF tokens = <<>> THEN <<>>
    ELSE LET token == Head(tokens) IN
         IF token = BOpen THEN TokenRuns(Tail(tokens), TRUE, is_italic)
         ELSE IF token = BClose THEN TokenRuns(Tail(tokens), FALSE, is_italic)
         ELSE IF token = IOpen THEN TokenRuns(Tail(tokens), is_bold, TRUE)
         ELSE IF token = IClose THEN TokenRuns(Tail(tokens), is_bold, FALSE)
         ELSE <<Run(token, is_bold, is_italic, <<>>)>>
              \o TokenRuns(Tail(tokens), is_bold, is_italic)

\* lines 128-133: one "Inline Code" run per code span (its bold and italic are
\* left unset, modelled as FALSE)
CodeRuns(line) ==
    LET ms == InlineCodeMatches(line)
    IN  [k \in 1..Len(ms) |-> Run(ms[k], FALSE, FALSE, sInlineCode)]

\* lines 135-157: the runs of what is left of the line without its code spans
TextRuns(line) == TokenRuns(Tokens(MarkEmphasis(RemoveInlineCode(line))), FALSE, FALSE)

\* lines 124-157: every line that is not a heading becomes a paragraph of the
\* default style at the current indent
Paragraph(line, indent) ==
    [kind |-> "paragraph", style |-> <<>>, text |-> <<>>, indent |-> indent,
     runs |-> CodeRuns(line) \o TextRuns(line), src |-> line]

\* a heading emitted without the left indent of its level
HeadingFlat(line) ==
    [kind |-> "heading", style |-> HeadingStyle(HeadingLevel(line)),
     text |-> HeadingText(line), indent |-> 0, runs |-> <<>>, src |-> line]

\* lines 108-121
Heading(line) ==
    [kind |-> "heading", style |-> HeadingStyle(HeadingLevel(line)),
     text |-> HeadingText(line), indent |-> (HeadingLevel(line) - 1) * IndentStep,
     runs |-> <<>>, src |-> line]

\* the loop of lines 101-159 over the lines left, with the style catalog of the
\* document, current_indent and the blocks added so far; add_paragraph raises
\* KeyError for a style name the catalog does not hold
RECURSIVE ParseLines(_, _, _, _)
ParseLines(lines, styles, current_indent, blocks) ==
    IF lines = <<>>
    THEN [status |-> "ok", missing |-> <<>>, blocks |-> blocks, indent |-> current_indent]
    ELSE LET line == Strip(Head(lines)) IN
         IF line = <<>> THEN ParseLines(Tail(lines), styles, current_indent, blocks)
         ELSE IF HeadingLevel(line) > 0
         THEN IF Heading(line).style \notin styles
              THEN [status |-> "KeyError", missing |-> Heading(line).style,
                    blocks |-> blocks, indent |-> Heading(line).indent]
              ELSE ParseLines(Tail(lines), styles, Heading(line).indent,
                              Append(blocks, Heading(line)))
         ELSE ParseLines(Tail(lines), styles, current_indent,
                         Append(blocks, Paragraph(line, current_indent)))

\* _parse_markdown_to_word on a document whose style catalog is styles: the
\* "Inline Code" character style is added when missing (lines 95-99)
ParseMarkdownToWord(md_lines, styles) ==
    LET s == styles \cup {sInlineCode}
        r == ParseLines(md_lines, s, 0, <<>>)
    IN  [status |-> r.status, missing |-> r.missing, blocks |-> r.blocks,
         indent |-> r.indent, styles |-> s]

----------------------------------------------------------------------------
(* Metadata values: what yaml.safe_load and the converter put in the map.  *)

Str(s) == [t |-> "str", s |-> s, items |-> <<>>]
None == [t |-> "none", s |-> <<>>, items |-> <<>>]
ListOf(items) == [t |-> "list", s |-> <<>>, items |-> items]

\* "-unassigned-"
Sentinel == <<"-", "u", "n", "a", "s", "s", "i", "g", "n", "e", "d", "-">>

kTitle == <<"T", "i", "t", "l", "e">>
kDocumentID == <<"D", "o", "c", "u", "m", "e", "n", "t", " ", "I", "D">>
kFacility == <<"F", "a", "c", "i", "l", "i", "t", "y">>
kVersion == <<"V", "e", "r", "s", "i", "o", "n">>
kCategory == <<"C", "a", "t", "e", "g", "o", "r", "y">>
kContent == <<"C", "o", "n", "t", "e", "n", "t">>
kAuthor == <<"A", "u", "t", "h", "o", "r">>

\* the seven recognized fields (converter.py 163-171)
Recognized == {kTitle, kDocumentID, kFacility, kVersion, kCategory, kContent, kAuthor}

DefaultMetadata == [k \in Recognized |-> Str(Sentinel)]

\* metadata[key] = value
Assign(metadata, key, value) ==
    [k \in DOMAIN metadata \cup {key} |-> IF k = key THEN value ELSE metadata[k]]

----------------------------------------------------------------------------
(* MarkdownToWordConverter._detect_title (converter.py 72-88).             *)

\* line 81: next_line.startswith("=") and len(next_line) >= 3
IsUnderline(next_line) == StartsWith(next_line, <<"=">>) /\ Len(next_line) >= 3

\* the loop of lines 76-86 from index i (1-based) on
RECURSIVE DetectFrom(_, _, _, _)
DetectFrom(md_lines, i, clean_lines, metadata) ==
    IF i > Len(md_lines) - 1
    THEN [metadata |-> metadata, lines |-> clean_lines, detected |-> FALSE]
    ELSE LET line == Strip(md_lines[i])
             next_line == Strip(md_lines[i + 1])
         IN  IF IsUnderline(next_line)
             THEN [metadata |-> Assign(metadata, kTitle, Str(line)),
                   lines |-> From(md_lines, i + 2), detected |-> TRUE]
             ELSE DetectFrom(md_lines, i + 1, Append(clean_lines, line), metadata)

DetectTitle(md_lines, metadata) == DetectFrom(md_lines, 1, <<>>, metadata)

----------------------------------------------------------------------------
(* yaml.safe_load as _extract_metadata uses it (converter.py 190), on the   *)
(* front-matter lines of the model: words of letters, "key: value" pairs,  *)
(* "key:" with no value, "- item" entries, and blank lines. The result is  *)
(* a mapping, a list, a string, None, or a YAMLError.                      *)

\* the position of the ":" that ends a mapping key: a colon followed by a space
\* or by the end of the line; 0 when the line has none
KeySep(l) ==
    LET hits == {p \in 1..Len(l) : l[p] = ":" /\ (p = Len(l) \/ l[p + 1] = " ")}
    IN  IF hits = {} THEN 0 ELSE CHOOSE p \in hits : \A q \in hits : p <= q

YamlKey(l) == SubSeq(l, 1, KeySep(l) - 1)
YamlRest(l) == LStrip(From(l, KeySep(l) + 1))
YamlItem(l) == LStrip(From(l, 3))

\* what one stripped line is to the YAML parser
YamlForm(l) ==
    IF l = <<>> THEN "blank"
    ELSE IF StartsWith(l, <<"-", " ">>) THEN "item"
    ELSE IF KeySep(l) = 0 THEN "scalar"
    ELSE IF YamlRest(l) = <<>> THEN "empty"
    ELSE IF KeySep(YamlRest(l)) > 0 THEN "bad"
    ELSE "pair"

\* the lines of a tuple that are not blank
RECURSIVE NonBlank(_)
NonBlank(ls) ==
    IF ls = <<>> THEN <<>>
    ELSE IF Head(ls) = <<>> THEN NonBlank(Tail(ls))
    ELSE <<Head(ls)>> \o NonBlank(Tail(ls))

\* the leading "- item" lines of ls, as list items
RECURSIVE LeadingItems(_)
LeadingItems(ls) ==
    IF ls # <<>> /\ YamlForm(Head(ls)) = "item"
    THEN <<Str(YamlItem(Head(ls)))>> \o LeadingItems(Tail(ls))
    ELSE <<>>

\* ls without its trailing blank lines
RECURSIVE RStripLines(_)
RStripLines(ls) ==
    IF ls # <<>> /\ ls[Len(ls)] = <<>> THEN RStripLines(SubSeq(ls, 1, Len(ls) - 1)) ELSE ls

\* a multi-line plain scalar, folded: a line break becomes a space, each blank
\* line between two lines of text a line feed (ls starts with a line of text)
RECURSIVE Fold(_, _)
Fold(ls, blanks) ==
    IF ls = <<>> THEN <<>>
    ELSE IF Head(ls) = <<>> THEN Fold(Tail(ls), blanks + 1)
    ELSE (IF blanks = 0 THEN <<" ">> ELSE [k \in 1..blanks |-> "\n"])
         \o Head(ls) \o Fold(Tail(ls), 0)

YamlError == [kind |-> "error", value |-> None, map |-> <<>>]
YamlValue(v) == [kind |-> "value", value |-> v, map |-> <<>>]
YamlMap(m) == [kind |-> "map", value |-> None, map |-> m]

\* a block mapping: the entries of the non-blank lines ls, added to m. A key with
\* no value takes the "- item" lines that follow it as a list, else None; a
\* later duplicate of a key replaces the earlier one.
RECURSIVE YamlEntries(_, _)
YamlEntries(ls, m) ==
    IF ls = <<>> THEN YamlMap(m)
    ELSE LET l == Head(ls)
             items == LeadingItems(Tail(ls))
         IN  IF YamlForm(l) = "pair"
             THEN YamlEntries(Tail(ls), Assign(m, YamlKey(l), Str(YamlRest(l))))
             ELSE IF YamlForm(l) = "empty"
             THEN YamlEntries(From(Tail(ls), Len(items) + 1),
                              Assign(m, YamlKey(l),
                                     IF items = <<>> THEN None ELSE ListOf(items)))
             ELSE YamlError

\* yaml.safe_load("\n".join(yaml_content))
YamlLoad(yaml_content) ==
    LET ls == NonBlank(yaml_content)
        forms == {YamlForm(ls[k]) : k \in 1..Len(ls)}
        start == CHOOSE k \in 1..Len(yaml_content) : yaml_content[k] # <<>>
                     /\ \A j \in 1..(k - 1) : yaml_content[j] = <<>>
    IN  IF ls = <<>> THEN YamlValue(None)
        ELSE IF "bad" \in forms THEN YamlError
        ELSE IF YamlForm(ls[1]) = "scalar"
        THEN IF forms \subseteq {"scalar", "item"}
             THEN YamlValue(Str(yaml_content[start]
                                \o Fold(From(RStripLines(yaml_content), start + 1), 0)))
             ELSE YamlError
        ELSE IF YamlForm(ls[1]) = "item"
        THEN IF forms = {"item"} THEN YamlValue(ListOf(LeadingItems(ls))) ELSE YamlError
        ELSE YamlEntries(ls, <<>>)

----------------------------------------------------------------------------
(* MarkdownToWordConverter._extract_metadata (converter.py 161-197).       *)

Delimiter == <<"-", "-", "-">>

\* lines 173-185: the lines collected while in_yaml_block is set
RECURSIVE CollectYaml(_, _, _)
CollectYaml(md_lines, in_yaml_block, yaml_content) ==
    IF md_lines = <<>> THEN yaml_content
    ELSE LET line == Strip(Head(md_lines)) IN
         IF line = Delimiter
         THEN CollectYaml(Tail(md_lines), ~in_yaml_block, yaml_content)
         ELSE CollectYaml(Tail(md_lines), in_yaml_block,
                          IF in_yaml_block THEN Append(yaml_content, line)
                          ELSE yaml_content)

\* lines 191-192: every key of the parsed mapping overrides or extends metadata
Merge(metadata, extracted) ==
    [k \in DOMAIN metadata \cup DOMAIN extracted |->
        IF k \in DOMAIN extracted THEN extracted[k] ELSE metadata[k]]

\* _extract_metadata: status "ok" with the metadata returned, or the exception
\* that leaves the function. yaml.YAMLError is caught (lines 194-195); iterating
\* over a parse result that is None, a string or a list of strings raises
\* TypeError at lines 191-192, which nothing catches.
ExtractMetadata(md_lines) ==
    LET yaml_content == CollectYaml(md_lines, FALSE, <<>>)
        y == YamlLoad(yaml_content)
    IN  IF yaml_content = <<>> \/ y.kind = "error"
        THEN [status |-> "ok", metadata |-> DefaultMetadata, yaml_content |-> yaml_content]
        ELSE IF y.kind = "map"
        THEN [status |-> "ok", metadata |-> Merge(DefaultMetadata, y.map),
              yaml_content |-> yaml_content]
        ELSE [status |-> "TypeError", metadata |-> DefaultMetadata,
              yaml_content |-> yaml_content]

----------------------------------------------------------------------------
(* MarkdownStyleDetector.scan_markdown_styles (style_detector.py 12-52).   *)

\* f"Body Text {self.current_level}"
BodyTextStyle(level) == sBodyText \o <<" ">> \o FormatInt(level)

\* line 34: re.match(r'^[-*+]\s+', line)
IsBullet(line) == Len(line) >= 2 /\ line[1] \in {"-", "*", "+"} /\ line[2] = " "

\* line 37: re.match(r'^\d+\.\s+', line)
IsNumbered(line) ==
    LET n == LeadCount(line, Digits)
    IN  n >= 1 /\ Len(line) >= n + 2 /\ line[n + 1] = "." /\ line[n + 2] = " "

\* line 47: re.search of BT.+?BT, a code span that is not empty
HasInlineCode(line) ==
    \E i, j \in 1..Len(line) : j >= i + 2 /\ line[i] = BT /\ line[j] = BT

\* the loop of lines 19-52 over the lines left: the styles added so far and
\* self.current_level
RECURSIVE ScanLines(_, _, _)
ScanLines(lines, styles, level) ==
    IF lines = <<>> THEN [required_styles |-> styles, current_level |-> level]
    ELSE LET line == Strip(Head(lines)) IN
         IF line = <<>> THEN ScanLines(Tail(lines), styles, level)
         ELSE IF HeadingLevel(line) > 0
         THEN ScanLines(Tail(lines), styles \cup {HeadingStyle(HeadingLevel(line))},
                        HeadingLevel(line))
         ELSE IF IsBullet(line) THEN ScanLines(Tail(lines), styles \cup {sListBullet}, level)
         ELSE IF IsNumbered(line) THEN ScanLines(Tail(lines), styles \cup {sListNumber}, level)
         ELSE IF StartsWith(line, <<">">>) THEN ScanLines(Tail(lines), styles \cup {sQuote}, level)
         ELSE IF HasInlineCode(line) THEN ScanLines(Tail(lines), styles \cup {sCode}, level)
         ELSE ScanLines(Tail(lines), styles \cup {BodyTextStyle(level)}, level)

\* scan_markdown_styles on a detector whose current_level is level: line 14
\* clears required_styles, and nothing resets current_level
ScanMarkdownStyles(lines, level) == ScanLines(lines, {}, level)

----------------------------------------------------------------------------
(* MarkdownStyleDetector.ensure_styles_exist and _create_style              *)
(* (style_detector.py 59-148). A template path is a tuple of pieces, so    *)
(* that str.replace can be modelled piece by piece.                        *)

\* str.replace(old, new) on a path, old being one piece and new a tuple of pieces
RECURSIVE Replace(_, _, _)
Replace(path, old, new) ==
    IF path = <<>> THEN <<>>
    ELSE (IF Head(path) = old THEN new ELSE <<Head(path)>>)
         \o Replace(Tail(path), old, new)

\* line 104
UpdatedTemplatePath(template_path) ==
    Replace(Replace(template_path, ".dotx", <<"_updated", ".dotx">>),
            ".dotm", <<"_updated", ".dotm">>)

\* lines 59-77: the names of the styles the template defines (the latent styles
\* are looked up under an attribute name they never carry, and add none)
GetAllStyles(fs, template_path) == fs[template_path]

\* _create_style with the branch of the "Code" style lost
CreateStyleNoCode(doc_styles, style_name) ==
    LET add == IF style_name \in doc_styles
               THEN [status |-> "ValueError", styles |-> doc_styles]
               ELSE [status |-> "ok", styles |-> doc_styles \cup {style_name}]
    IN  IF StartsWith(style_name, sHeading)
        THEN IF Len(Split(style_name, " ")) < 2
             THEN [status |-> "IndexError", styles |-> doc_styles]
             ELSE IF ~IntLiteral(Split(style_name, " ")[2])
             THEN [status |-> "ValueError", styles |-> doc_styles]
             ELSE add
        ELSE IF StartsWith(style_name, sBodyText) THEN add
        ELSE IF style_name \in {sQuote, sListBullet, sListNumber} THEN add
        ELSE [status |-> "ok", styles |-> doc_styles]

\* _create_style (lines 113-148) on a document whose style catalog is
\* doc_styles: the catalog afterwards, and "ok" or the exception raised.
\*   lines 117-118  every name that starts with "Heading" takes the heading
\*                  branch, where int(style_name.split(" ")[1]) raises
\*                  IndexError for a name without a space and ValueError for
\*                  a second word that is no integer, before anything is added
\*   line 124       every name that starts with "Body Text"
\*   lines 129-148  "Quote", "List Bullet", "List Number", "Code"
\*   add_style raises ValueError for a name the document already holds; a
\*   name of no branch is left out without an error
CreateStyle(doc_styles, style_name) ==
    LET add == IF style_name \in doc_styles
               THEN [status |-> "ValueError", styles |-> doc_styles]
               ELSE [status |-> "ok", styles |-> doc_styles \cup {style_name}]
    IN  IF StartsWith(style_name, sHeading)
        THEN IF Len(Split(style_name, " ")) < 2
             THEN [status |-> "IndexError", styles |-> doc_styles]
             ELSE IF ~IntLiteral(Split(style_name, " ")[2])
             THEN [status |-> "ValueError", styles |-> doc_styles]
             ELSE add
        ELSE IF StartsWith(style_name, sBodyText) THEN add
        ELSE IF style_name \in {sQuote, sListBullet, sListNumber, sCode} THEN add
        ELSE [status |-> "ok", styles |-> doc_styles]

\* lines 96-100: _create_style for every missing style, in the order the set
\* happens to be iterated; the catalog once every call has returned
RECURSIVE CreateAll(_, _)
CreateAll(doc_styles, missing_styles) ==
    IF missing_styles = {} THEN doc_styles
    ELSE LET st == CHOOSE x \in missing_styles : TRUE
         IN  CreateAll(CreateStyle(doc_styles, st).styles, missing_styles \ {st})

\* line 92
MissingStyles(required, existing_styles) == {st \in required : st \notin existing_styles}

\* ensure_styles_exist on the files fs: the path returned, the styles found
\* missing, and the files afterwards (line 105 saves the document under the
\* updated path, which is the template's own path unless it names .dotx or .dotm).
\* errors holds the exceptions _create_style raises for the missing styles: the
\* first one met in the loop of lines 98-100 leaves ensure_styles_exist before
\* anything is saved, and the order of the loop is that of a set.
EnsureStylesExist(fs, template_path, required) ==
    LET missing == MissingStyles(required, GetAllStyles(fs, template_path))
        errors == {CreateStyle(fs[template_path], st).status : st \in missing} \ {"ok"}
        doc_styles == CreateAll(fs[template_path], missing)
        updated == UpdatedTemplatePath(template_path)
    IN  IF errors # {}
        THEN [ret |-> template_path, missing |-> missing, errors |-> errors, files |-> fs]
        ELSE [ret |-> updated, missing |-> missing, errors |-> errors,
              files |-> [p \in DOMAIN fs \cup {updated} |->
                            IF p = updated THEN doc_styles ELSE fs[p]]]

----------------------------------------------------------------------------
(* MarkdownToWordConverter.convert and _apply_metadata                     *)
(* (converter.py 22-69, 200-215).                                          *)

\* the style names the rendered blocks carry: headings and code runs
BlockStyles(blocks) ==
    {blocks[k].style : k \in {j \in 1..Len(blocks) : blocks[j].kind = "heading"}}
    \cup {sInlineCode : k \in {j \in 1..Len(blocks) :
                                   \E n \in 1..Len(blocks[j].runs) :
                                       blocks[j].runs[n].style = sInlineCode}}

\* metadata.get(key, '-unassigned-')
Get(metadata, key) == IF key \in DOMAIN metadata THEN metadata[key] ELSE Str(Sentinel)

NoOutput == [title |-> None, blocks |-> <<>>, labels |-> <<>>]

ConvResult(status, wanted, styles, output) ==
    [status |-> status, wanted |-> wanted, styles |-> styles, output |-> output]

\* convert on the template at template_path and the lines md_content.
\*   status  "ok", or the exception that leaves convert: the TypeError of
\*           _extract_metadata, or the KeyError add_paragraph raises for a style
\*           name the document does not hold
\*   wanted  the style names convert has asked the document for
\*   styles  the style catalog of the document convert renders into
ConvertDoc(fs, template_path, md_content) ==
    LET doc_styles == fs[template_path]
        m == ExtractMetadata(md_content)
        t == IF m.metadata[kTitle] = Str(Sentinel)
             THEN DetectTitle(md_content, m.metadata)
             ELSE [metadata |-> m.metadata, lines |-> md_content, detected |-> FALSE]
        r == ParseMarkdownToWord(t.lines, doc_styles)
        rendered == {sTitle} \cup BlockStyles(r.blocks)
    IN  IF m.status # "ok" THEN ConvResult(m.status, {}, doc_styles, NoOutput)
        ELSE IF sTitle \notin doc_styles
        THEN ConvResult("KeyError", {sTitle}, doc_styles, NoOutput)
        ELSE IF r.status # "ok"
        THEN ConvResult(r.status, rendered \cup {r.missing}, r.styles, NoOutput)
        ELSE IF sNormal \notin r.styles
        THEN ConvResult("KeyError", rendered \cup {sNormal}, r.styles, NoOutput)
        ELSE ConvResult("ok", rendered \cup {sNormal}, r.styles,
                        [title |-> t.metadata[kTitle], blocks |-> r.blocks,
                         labels |-> <<Get(t.metadata, kDocumentID),
                                      Get(t.metadata, kFacility),
                                      Get(t.metadata, kContent)>>])

----------------------------------------------------------------------------
(* Inputs.                                                                 *)

\* all tuples over the set cs of length lo..hi
Tuples(cs, lo, hi) == UNION {[1..n -> cs] : n \in lo..hi}

\* main.py 84-88: the template is any file the user picks; the dialog offers
\* *.docx first, and the reconciler renames .dotx and .dotm
TemplatePaths == {<<"t", ".docx">>, <<"t", ".dotx">>, <<"t", ".dotm">>}

\* a path no file is at
MissingPath == <<"none", ".docx">>

AllStyles == {sTitle, sNormal} \cup {HeadingStyle(l) : l \in 1..6}

\* style catalogs a template may start with
Catalogs == {{}, {sTitle, sNormal, HeadingStyle(1)}, AllStyles}

lH1 == <<"#", " ", "A">>
lH2 == <<"#", "#", " ", "B">>
lH3 == <<"#", "#", "#", " ", "C">>
lH6 == <<"#", "#", "#", "#", "#", "#", "F">>
lH7 == <<"#", "#", "#", "#", "#", "#", "#", "G">>
lText == <<"x">>
lBold == <<"x", " ", "*", "*", "b", "*", "*">>
lBullet == <<"-", " ", "x">>
lNumbered == <<"1", ".", " ", "x">>
lQuote == <<">", " ", "x">>
lCode == <<BT, "x", BT, " ", "y">>
lBlank == <<" ">>
lTitle == <<"T">>
lUnderline == <<"=", "=", "=">>

\* documents the detector scans: body text before a heading below the first
\* level, and a first-level heading with each list, quote and code line
ScanDocs ==
    {<<lText, lH2>>, <<lH1, lBullet, lNumbered, lBlank, lQuote, lCode>>}

\* the document the style pipeline converts: a title, a heading below the first
\* level, a paragraph with emphasis
StyleDocs == {<<lTitle, lUnderline, lH2, lBold>>}

\* lines of title detection: text, underlines, near-underlines, padded and blank
TitleLines == {<<"T">>, <<"U">>, <<"=", "=", "=">>, <<"=", "=">>, <<"=", "a", "b">>, <<" ", "=", "=", "=", "=", " ">>, <<>>}
TitleDocs == Tuples(TitleLines, 0, MaxTitleLines)

\* front-matter lines: pairs, a key with no value, a plain word, a list item, a
\* line the YAML parser rejects, a blank line
FmLines == {<<"T", "i", "t", "l", "e", ":", " ", "X">>, <<"A", "u", "t", "h", "o", "r", ":", " ", "Y">>, <<"F", "o", "o", ":", " ", "Z">>, <<"T", "i", "t", "l", "e", ":">>, <<"h", "e", "l", "l", "o">>, <<"-", " ", "a">>, <<"a", ":", " ", "b", ":", " ", "c">>, <<>>}
FrontMatters == Tuples(FmLines, 0, MaxFmLines)

\* what follows the front matter: nothing, body text, a title, a body with a
\* horizontal rule, a body with two of them
Bodies == {<<>>, <<<<"b", "o", "d", "y">>>>, <<lTitle, lUnderline, lText>>, <<<<"b", "o", "d", "y">>, Delimiter, <<"r", "u", "l", "e">>>>, <<lText, Delimiter, <<"A", "u", "t", "h", "o", "r", ":", " ", "Y">>, Delimiter, lText>>}

MetaDocs ==
    {<<Delimiter>> \o fm \o <<Delimiter>> \o body : fm \in FrontMatters, body \in Bodies}
    \cup {body : body \in Bodies}
    \cup {<<Delimiter>> \o fm : fm \in FrontMatters}

\* characters of the enumerated paragraph lines: emphasis, code and marker text
InlineChars == {"a", "*", BT, "<", "b", "/", ">"}
\* characters of the enumerated list lines
ListChars == {"x", "-", "*", "+", "1", ".", " "}

\* lines of the enumerated documents of the block parser: headings of several
\* levels (one with no space after the hashes, one with a seventh hash), text,
\* padded text and a blank line
IndentLines == {lH1, lH2, lH3, lH6, lH7, lText, <<" ", "y", " ">>, lBlank}

\* documents of the block parser: every one-line document over the two
\* alphabets, and documents of headings, paragraphs and blank lines
ParseDocs ==
    Tuples(IndentLines, 0, MaxParseLines) \cup
    {<<l>> : l \in Tuples(InlineChars, 1, MaxLineLen) \cup Tuples(ListChars, 1, MaxLineLen)}
    \cup StyleDocs
    \cup {<<lText, lH2, lText, lBlank, lH1, lText>>, <<<<"<", "i", ">", "a", "<", "/", "i", ">">>>>, <<<<"x", " ", "<", "b", ">", "y", "<", "/", "b", ">", " ", "z">>>>}

----------------------------------------------------------------------------
(* The state machine.                                                      *)

NoCall == [op |-> "none"]

\* the detector as constructed (style_detector.py 8-10), nothing called yet
InitDetector ==
    /\ required_styles = {}
    /\ current_level = 1
    /\ call = NoCall

\* scan_markdown_styles(d)
Scan(d) ==
    LET r == ScanMarkdownStyles(d, current_level) IN
    /\ required_styles' = r.required_styles
    /\ current_level' = r.current_level
    /\ call' = [op |-> "scan", doc |-> d]
    /\ UNCHANGED <<files, md>>

\* ensure_styles_exist(p) on a template that exists and can be opened; again
\* tells a call on the template the call before it returned, for the same
\* required styles. An exception of _create_style ends the call with nothing
\* saved.
Ensure(p) ==
    LET r == EnsureStylesExist(files, p, required_styles) IN
    /\ p \in DOMAIN files
    /\ Cardinality(DOMAIN r.files) <= MaxFiles
    /\ files' = r.files
    /\ \E status \in (IF r.errors = {} THEN {"ok"} ELSE r.errors) :
           call' = [op |-> "ensure", status |-> status, template |-> p, ret |-> r.ret,
                    required |-> required_styles, missing |-> r.missing,
                    before |-> files[p],
                    again |-> (call.op = "ensure" /\ call.status = "ok" /\ call.ret = p
                               /\ call.required = required_styles)]
    /\ UNCHANGED <<required_styles, current_level, md>>

\* ensure_styles_exist(p) on a template another program holds open: Document()
\* raises PermissionError, which lines 85-88 raise again; nothing is written
EnsureLocked(p) ==
    /\ p \in DOMAIN files
    /\ call' = [op |-> "ensure", status |-> "PermissionError", template |-> p,
                ret |-> p, required |-> required_styles, missing |-> {},
                before |-> files[p], again |-> FALSE]
    /\ UNCHANGED <<files, required_styles, current_level, md>>

\* ensure_styles_exist(p) on a path no file is at: FileNotFoundError (lines 82-83)
EnsureNotFound(p) ==
    /\ p \notin DOMAIN files
    /\ call' = [op |-> "ensure", status |-> "FileNotFoundError", template |-> p,
                ret |-> p, required |-> required_styles, missing |-> {},
                before |-> {}, again |-> FALSE]
    /\ UNCHANGED <<files, required_styles, current_level, md>>

\* convert(p, d, output_dir), as main calls it on the template the user picked
Convert(p, d) ==
    /\ p \in DOMAIN files
    /\ call' = [op |-> "convert", template |-> p, doc |-> d,
                result |-> ConvertDoc(files, p, d)]
    /\ UNCHANGED <<files, required_styles, current_level, md>>

\* _extract_metadata(md)
Extract ==
    /\ call' = [op |-> "extract", result |-> ExtractMetadata(md)]
    /\ UNCHANGED <<files, required_styles, current_level, md>>

\* _detect_title(md, metadata) with the Title still the sentinel, as convert calls it
Detect ==
    /\ call' = [op |-> "detect", nth |-> 1,
                first |-> DetectTitle(md, DefaultMetadata),
                result |-> DetectTitle(md, DefaultMetadata)]
    /\ UNCHANGED <<files, required_styles, current_level, md>>

\* _detect_title again, on the lines and the metadata the first run returned
DetectAgain ==
    /\ call.op = "detect" /\ call.nth = 1
    /\ call' = [call EXCEPT !.nth = 2,
                            !.result = DetectTitle(call.first.lines, call.first.metadata)]
    /\ UNCHANGED <<files, required_styles, current_level, md>>

\* _parse_markdown_to_word(md, doc) on a document whose style catalog is c
Parse(c) ==
    /\ call' = [op |-> "parse", styles |-> c, result |-> ParseMarkdownToWord(md, c)]
    /\ UNCHANGED <<files, required_styles, current_level, md>>

\* The style pipeline: one template on disk, the detector and the converter.
InitStyles ==
    /\ \E p \in TemplatePaths, c \in Catalogs : files = (p :> c)
    /\ md = <<>>
    /\ InitDetector

NextStyles ==
    \/ \E d \in ScanDocs : Scan(d)
    \/ \E p \in DOMAIN files : Ensure(p)
    \/ \E p \in DOMAIN files : EnsureLocked(p)
    \/ EnsureNotFound(MissingPath)
    \/ \E p \in DOMAIN files, d \in StyleDocs : Convert(p, d)

SpecStyles == InitStyles /\ [][NextStyles]_vars

\* a template that holds every style the converter names
FullTemplate == (<<"t", ".docx">> :> AllStyles)

\* Metadata extraction and the conversion that starts with it.
InitMeta ==
    /\ files = FullTemplate
    /\ md \in MetaDocs
    /\ InitDetector

NextMeta ==
    \/ Extract
    \/ \E p \in DOMAIN files : Convert(p, md)

SpecMeta == InitMeta /\ [][NextMeta]_vars

\* Title detection, once and again.
InitTitle ==
    /\ files = FullTemplate
    /\ md \in TitleDocs
    /\ InitDetector

NextTitle == Detect \/ DetectAgain

SpecTitle == InitTitle /\ [][NextTitle]_vars

\* The block and inline parser.
InitParse ==
    /\ files = FullTemplate
    /\ md \in ParseDocs
    /\ InitDetector

NextParse == \E c \in {{}, AllStyles} : Parse(c)

SpecParse == InitParse /\ [][NextParse]_vars

----------------------------------------------------------------------------
(* Claims.                                                                 *)

\* C1: every style name convert asks the document for while rendering (Title,
\* Heading N, Normal, Inline Code) is in the document's style catalog when it is
\* asked for; rendering never references a missing style.
C1_StylesPresent ==
    call.op = "convert" => call.result.wanted \subseteq call.result.styles

\* C2: after ensure_styles_exist returns, every required style is in the catalog
\* of the template it returned, whatever catalog the template started with; and a
\* second call on the returned template, for the same required styles, finds no
\* style missing and creates nothing.
C2_RequiredInCatalog ==
    (call.op = "ensure" /\ call.status = "ok") =>
        /\ call.required \subseteq files[call.ret]
        /\ call.again => (call.missing = {} /\ files[call.ret] = call.before)

\* a second call on the returned template, for styles no template started with
C2_Witness ==
    /\ call.op = "ensure" /\ call.status = "ok" /\ call.again
    /\ call.required \ AllStyles # {}

\* C3: ensure_styles_exist never modifies the template it is given: the file it
\* writes is another file, and the original's catalog is what it was.
C3_OriginalUntouched ==
    (call.op = "ensure" /\ call.status = "ok") =>
        /\ call.ret # call.template
        /\ files[call.template] = call.before

\* the values the collected front matter gives for key k as "key: value" lines
GivenValues(yaml_content, k) ==
    {Str(YamlRest(yaml_content[n])) :
        n \in {j \in 1..Len(yaml_content) :
                 YamlForm(yaml_content[j]) = "pair" /\ YamlKey(yaml_content[j]) = k}}

\* C4: the metadata _extract_metadata returns holds all seven recognized fields,
\* each the value the front matter gives for it or the sentinel, never null or
\* absent, also when the front matter names a key with no value.
C4_FieldsPopulated ==
    (call.op = "extract" /\ call.result.status = "ok") =>
        \A k \in Recognized :
            /\ k \in DOMAIN call.result.metadata
            /\ call.result.metadata[k] \in
                   {Str(Sentinel)} \cup GivenValues(call.result.yaml_content, k)

\* the collected front matter does not parse to a mapping: the parser rejects
\* it, or it is a bare scalar, a list, or nothing but blank lines
Malformed(md_lines) ==
    LET yaml_content == CollectYaml(md_lines, FALSE, <<>>)
    IN  yaml_content # <<>> /\ YamlLoad(yaml_content).kind # "map"

\* C5: malformed front matter is never fatal: _extract_metadata returns with all
\* seven fields at the sentinel, and convert goes on to produce the document.
C5_MalformedNotFatal ==
    Malformed(md) =>
        /\ call.op = "extract" =>
               (call.result.status = "ok" /\ call.result.metadata = DefaultMetadata)
        /\ call.op = "convert" => call.result.status = "ok"

\* C6: scan_markdown_styles yields, after any earlier scans on the same detector,
\* the required styles a first scan on a fresh detector yields.
C6_ScanHistoryIndependent ==
    call.op = "scan" =>
        required_styles = ScanMarkdownStyles(call.doc, 1).required_styles

\* the line without its code spans and with its matched emphasis delimiters
\* stripped: the three emphasis rewritings, leaving nothing in the delimiters' place
PlainText(line) ==
    LET l3 == SubEmphasis(RemoveInlineCode(line), <<"*", "*", "*">>, <<>>, <<>>)
        l2 == SubEmphasis(l3, <<"*", "*">>, <<>>, <<>>)
    IN  SubEmphasis(l2, <<"*">>, <<>>, <<>>)

\* the texts of the runs that are not code runs, concatenated in order
RunText(runs) ==
    Concat([k \in 1..Len(runs) |->
               IF runs[k].style = sInlineCode THEN <<>> ELSE runs[k].text])

\* C7: for every paragraph, the runs of the non-code part of the line, put
\* together, are the line with its code spans removed and its matched emphasis
\* delimiters stripped; no other character is dropped or duplicated.
C7_RunsCoverText ==
    call.op = "parse" =>
        \A k \in 1..Len(call.result.blocks) :
            call.result.blocks[k].kind = "paragraph" =>
                RunText(call.result.blocks[k].runs) = PlainText(call.result.blocks[k].src)

\* the index of the first line whose next line is an underline
TitleIndex(md_lines) ==
    CHOOSE i \in 1..(Len(md_lines) - 1) :
        /\ IsUnderline(Strip(md_lines[i + 1]))
        /\ \A j \in 1..(i - 1) : ~IsUnderline(Strip(md_lines[j + 1]))

\* C8: _detect_title returns the input without the title line and its underline,
\* every other line kept in order, when it detects a title; and the whole input
\* unchanged, the Title still the sentinel, when it detects none.
C8_OnlyTitlePairRemoved ==
    (call.op = "detect" /\ call.nth = 1) =>
        IF call.first.detected
        THEN call.first.lines = SubSeq(md, 1, TitleIndex(md) - 1)
                                    \o From(md, TitleIndex(md) + 2)
        ELSE /\ call.first.lines = md
             /\ call.first.metadata[kTitle] = Str(Sentinel)

\* C9: a second _detect_title, on what the first returned, detects no title,
\* leaves the Title as the first run set it and returns the sequence unchanged.
C9_DetectIdempotent ==
    (call.op = "detect" /\ call.nth = 2) =>
        /\ ~call.result.detected
        /\ call.result.metadata[kTitle] = call.first.metadata[kTitle]
        /\ call.result.lines = call.first.lines

\* the text of a list line after its marker: re.sub of the marker and the
\* whitespace after it by nothing
ListText(line) ==
    IF IsBullet(line) THEN LStrip(From(line, 2))
    ELSE LStrip(From(line, LeadCount(line, Digits) + 2))

\* C10: every line that starts with a list marker is emitted as a list item of
\* the matching kind, its marker stripped; never as a paragraph that carries it.
C10_ListItemsStripped ==
    call.op = "parse" =>
        \A k \in 1..Len(call.result.blocks) :
            LET b == call.result.blocks[k] IN
            (IsBullet(b.src) \/ IsNumbered(b.src)) =>
                /\ b.kind = (IF IsBullet(b.src) THEN "bullet" ELSE "numbered")
                /\ b.text = ListText(b.src)

\* the number of '#' characters a line starts with, at most six of them counted
HashCount(line) ==
    LET n == CHOOSE n \in 0..Len(line) :
                 /\ \A j \in 1..n : line[j] = "#"
                 /\ (n < Len(line) => line[n + 1] # "#")
    IN  IF n > 6 THEN 6 ELSE n

\* the indent that holds after the first k blocks: that of the last heading
\* among them, 0 when there is none
IndentAfter(blocks, k) ==
    LET hs == {j \in 1..k : blocks[j].kind = "heading"}
    IN  IF hs = {} THEN 0
        ELSE blocks[CHOOSE j \in hs : \A i \in hs : i <= j].indent

\* the lines of a document that are not blank, stripped, in order
RECURSIVE NonBlankLines(_)
NonBlankLines(lines) ==
    IF lines = <<>> THEN <<>>
    ELSE (IF Strip(Head(lines)) = <<>> THEN <<>> ELSE <<Strip(Head(lines))>>)
         \o NonBlankLines(Tail(lines))

\* C11: in _parse_markdown_to_word current_indent starts at 0 and only heading
\* lines change it: a heading of level L is emitted with an indent of L-1 steps
\* of a quarter inch, a paragraph with the indent of the most recent heading
\* before it (0 when there is none), and a blank line emits no block and leaves
\* current_indent alone, so the blocks are those of the non-blank lines and the
\* indent left at the end is that of the last heading.
C11_IndentFollowsHeadings ==
    call.op = "parse" =>
        LET blocks == call.result.blocks
            lines == NonBlankLines(md)
        IN  /\ Len(blocks) <= Len(lines)
            /\ \A k \in 1..Len(blocks) :
                   /\ blocks[k].src = lines[k]
                   /\ blocks[k].kind = (IF HashCount(lines[k]) > 0 THEN "heading"
                                                                   ELSE "paragraph")
                   /\ blocks[k].kind = "heading" =>
                          blocks[k].indent = (HashCount(lines[k]) - 1) * 25
                   /\ blocks[k].kind = "paragraph" =>
                          blocks[k].indent = IndentAfter(blocks, k - 1)
            /\ call.result.status = "ok" =>
                   /\ Len(blocks) = Len(lines)
                   /\ call.result.indent = IndentAfter(blocks, Len(blocks))

\* a document with a blank line was parsed whole: a paragraph before any
\* heading, a paragraph indented under a heading below the first level, and a
\* paragraph under a later heading of another level
C11_Witness ==
    /\ call.op = "parse" /\ call.result.status = "ok"
    /\ Len(call.result.blocks) < Len(md)
    /\ \E i, j, k \in 1..Len(call.result.blocks) :
           /\ i < j /\ j + 1 < k
           /\ call.result.blocks[i].kind = "paragraph"
           /\ call.result.blocks[i].indent = 0
           /\ call.result.blocks[j].kind = "heading"
           /\ call.result.blocks[j + 1].kind = "paragraph"
           /\ call.result.blocks[j + 1].indent > 0
           /\ call.result.blocks[k].kind = "paragraph"
           /\ call.result.blocks[k].indent # call.result.blocks[j + 1].indent

\* the stripped lines up to the first "---" line, that line left out
RECURSIVE UpToDelimiter(_)
UpToDelimiter(lines) ==
    IF lines = <<>> \/ Strip(Head(lines)) = <<"-", "-", "-">> THEN <<>>
    ELSE <<Strip(Head(lines))>> \o UpToDelimiter(Tail(lines))

\* the front-matter block of a document: the stripped lines between the first
\* "---" line and the second one (the end of the document when the block is
\* never closed); nothing when the document has no "---" line
FrontMatterBlock(lines) ==
    LET n == Len(UpToDelimiter(lines))
    IN  IF n = Len(lines) THEN <<>> ELSE UpToDelimiter(From(lines, n + 2))

\* C12: _extract_metadata collects as front matter only the lines between the
\* first "---" line and the second: once the second delimiter has closed the
\* block no later line of the document is collected or parsed as metadata,
\* whatever further "---" lines the body holds.
C12_OnlyFirstBlockCollected ==
    call.op = "extract" => call.result.yaml_content = FrontMatterBlock(md)

====
